---- MODULE Spec2Model ----
(***************************************************************************)
(* Model of the prod-reports downloader (src/1_prod_reports_gui.py): the   *)
(* local logs directory, the Tk main thread's handlers (refresh,           *)
(* download_selected, request_cancel, finalize) and the background worker  *)
(* thread (run_download -> download_folder -> stream_download), one worker *)
(* step per access to state the two threads share (the cancel event, the   *)
(* file system).                                                           *)
(*                                                                         *)
(* Environment: urlopen, resp.read, open, write, rename, mkdir and the     *)
(* progress callback may each fail; Path.unlink(missing_ok=True) and       *)
(* shutil.rmtree(ignore_errors=True) on what the worker itself created are *)
(* taken to succeed (POSIX semantics).  The age filter keeps its initial   *)
(* value (filter_days = None, "All").                                      *)
(***************************************************************************)
EXTENDS Integers, Sequences, FiniteSets, TLC

\* ------------------------------------------------------------------ bounds
\* The most chunks one response body delivers before its end.
MaxChunks == 2

\* ------------------------------------------------------- program constants
\* resp.read(8192)
CHUNK_SIZE == 8192

ARB == "arbitrator.csv"
OPH == "op_hour.csv"
FILES_TO_FETCH == <<ARB, OPH>>

\* dest_path.with_suffix(dest_path.suffix + ".part")
PartOf(filename) == IF filename = ARB THEN "arbitrator.csv.part" ELSE "op_hour.csv.part"

Required == {FILES_TO_FETCH[i] : i \in 1..Len(FILES_TO_FETCH)}

\* p.glob("*.csv"): the entries whose name ends in ".csv" (a ".part" name does not).
IsCsv(filename) == filename \in Required

\* ------------------------------------------------------------ folder names
\* The directory names of the model.  F_NEW and F_OLD follow the naming
\* convention; F_BAD does not.
F_NEW == "20240101-0000_20240101-0100"
F_OLD == "20230101-0000_20230101-0100"
F_BAD == "notes"

Names == {F_NEW, F_OLD, F_BAD}

\* A name as its characters (TLC does not index into strings).
Chars(name) ==
    CASE name = F_NEW -> <<"2","0","2","4","0","1","0","1","-","0","0","0","0","_",
                           "2","0","2","4","0","1","0","1","-","0","1","0","0">>
      [] name = F_OLD -> <<"2","0","2","3","0","1","0","1","-","0","0","0","0","_",
                           "2","0","2","3","0","1","0","1","-","0","1","0","0">>
      [] OTHER        -> <<"n","o","t","e","s">>

Digits == <<"0","1","2","3","4","5","6","7","8","9">>
IsDigit(c) == \E i \in 1..10 : Digits[i] = c
DigitVal(c) == (CHOOSE i \in 1..10 : Digits[i] = c) - 1

\* r"(\d{8}-\d{4}_\d{8}-\d{4})": a match at the start of s (re.match); what
\* follows the 27 characters is free.
PrefixMatches(s) ==
    /\ Len(s) >= 27
    /\ \A i \in (1..8) \cup (10..13) \cup (15..22) \cup (24..27) : IsDigit(s[i])
    /\ s[9] = "-" /\ s[14] = "_" /\ s[23] = "-"

\* FOLDER_PATTERN.match(p.name)
FOLDER_PATTERN(name) == PrefixMatches(Chars(name))

\* The decimal number written by s[from..to].
RECURSIVE Num(_, _, _)
Num(s, from, to) ==
    IF to < from THEN 0 ELSE 10 * Num(s, from, to - 1) + DigitVal(s[to])

IsLeap(y) == (y % 4 = 0 /\ y % 100 # 0) \/ y % 400 = 0
DaysIn(y, m) ==
    IF m = 2 THEN (IF IsLeap(y) THEN 29 ELSE 28)
    ELSE IF m \in {4, 6, 9, 11} THEN 30 ELSE 31

NoneDT == <<>>

\* strptime with "%Y%d%m%H%M": day and month read in the other order.
StrptimeDayFirst(s, d, t) ==
    LET y  == Num(s, d, d + 3)
        dd == Num(s, d + 4, d + 5)
        mo == Num(s, d + 6, d + 7)
        hh == Num(s, t, t + 1)
        mi == Num(s, t + 2, t + 3)
    IN  IF /\ y >= 1 /\ mo \in 1..12 /\ dd >= 1 /\ dd <= DaysIn(y, mo)
           /\ hh <= 23 /\ mi <= 59
        THEN <<y, mo, dd, hh, mi>>
        ELSE NoneDT

\* datetime.strptime(date + time, "%Y%m%d%H%M") on 12 digits starting at
\* s[d] (date) and s[t] (time): the fields, or NoneDT for a ValueError.
Strptime(s, d, t) ==
    LET y  == Num(s, d, d + 3)
        mo == Num(s, d + 4, d + 5)
        dd == Num(s, d + 6, d + 7)
        hh == Num(s, t, t + 1)
        mi == Num(s, t + 2, t + 3)
    IN  IF /\ y >= 1 /\ mo \in 1..12 /\ dd >= 1 /\ dd <= DaysIn(y, mo)
           /\ hh <= 23 /\ mi <= 59
        THEN <<y, mo, dd, hh, mi>>
        ELSE NoneDT

\* parse_folder_name with each half parsed under its own try.
parse_folder_name_each(s) ==
    IF ~PrefixMatches(s) THEN <<NoneDT, NoneDT>>
    ELSE <<Strptime(s, 1, 10), Strptime(s, 15, 24)>>

\* parse_folder_name of the name with characters s: <<start, end>>, each
\* <<y, mo, d, h, mi>>, or <<None, None>>.
parse_folder_name(s) ==
    IF ~PrefixMatches(s) THEN <<NoneDT, NoneDT>>
    ELSE LET st == Strptime(s, 1, 10)
             en == Strptime(s, 15, 24)
         IN  IF st = NoneDT \/ en = NoneDT
             THEN <<NoneDT, NoneDT>>
             ELSE <<st, en>>

\* Days since 1970-01-01 of a civil date (proleptic Gregorian).
DaysFromCivil(y, m, d) ==
    LET yy  == IF m <= 2 THEN y - 1 ELSE y
        era == yy \div 400
        yoe == yy - era * 400
        mp  == IF m > 2 THEN m - 3 ELSE m + 9
        doy == (153 * mp + 2) \div 5 + d - 1
        doe == yoe * 365 + yoe \div 4 - yoe \div 100 + doy
    IN  era * 146097 + doe - 719468

\* int(start_dt.timestamp()), the local zone taken as UTC.
Timestamp(dt) ==
    ((DaysFromCivil(dt[1], dt[2], dt[3]) * 24 + dt[4]) * 60 + dt[5]) * 60

\* Code points of the characters the model's names use.
Ord(c) ==
    IF IsDigit(c) THEN 48 + DigitVal(c)
    ELSE CASE c = "-" -> 45 [] c = "_" -> 95 [] c = "e" -> 101
           [] c = "n" -> 110 [] c = "o" -> 111 [] c = "s" -> 115
           [] c = "t" -> 116 [] c = "x" -> 120 [] c = "/" -> 47
           [] c = "<" -> 60 [] OTHER -> 0

\* Python's str "<".
RECURSIVE StrLess(_, _)
StrLess(a, b) ==
    IF b = <<>> THEN FALSE
    ELSE IF a = <<>> THEN TRUE
    ELSE IF Ord(Head(a)) # Ord(Head(b)) THEN Ord(Head(a)) < Ord(Head(b))
    ELSE StrLess(Tail(a), Tail(b))

\* The key with the timestamp not negated: (timestamp, name).
folder_sort_key_ascending(s) ==
    LET st == parse_folder_name(s)[1]
    IN  <<IF st = NoneDT THEN 0 ELSE Timestamp(st), s>>

\* folder_sort_key of the name with characters s: (-timestamp, name), the
\* timestamp 0 when the name is unparseable.
folder_sort_key(s) ==
    LET st == parse_folder_name(s)[1]
    IN  <<IF st = NoneDT THEN 0 ELSE 0 - Timestamp(st), s>>

\* Python's "<" on two keys (int, str).
TupleLess(k1, k2) ==
    \/ k1[1] < k2[1]
    \/ k1[1] = k2[1] /\ StrLess(k1[2], k2[2])

\* folder_sort_key(name)[0]: -timestamp of the start, 0 when unparseable.
SortStamp(name) == folder_sort_key(Chars(name))[1]

\* folder_sort_key(a) < folder_sort_key(b), the keys being (-timestamp, name).
KeyLess(a, b) ==
    TupleLess(folder_sort_key(Chars(a)), folder_sort_key(Chars(b)))

\* sorted(S, key=folder_sort_key)
RECURSIVE SortedByKey(_)
SortedByKey(S) ==
    IF S = {} THEN <<>>
    ELSE LET m == CHOOSE x \in S : \A y \in S \ {x} : KeyLess(x, y)
         IN  <<m>> \o SortedByKey(S \ {m})

\* sorted(S, key=folder_sort_key) of a set of names given by their characters.
RECURSIVE SortedChars(_)
SortedChars(S) ==
    IF S = {} THEN <<>>
    ELSE LET m == CHOOSE x \in S : \A y \in S \ {x} :
                      TupleLess(folder_sort_key(x), folder_sort_key(y))
         IN  <<m>> \o SortedChars(S \ {m})

\* FOLDER_PATTERN.findall with the trailing slash kept in what is returned.
RECURSIVE FindAllWithSlash(_, _)
FindAllWithSlash(s, i) ==
    IF i > Len(s) THEN <<>>
    ELSE IF PrefixMatches(SubSeq(s, i, Len(s)))
    THEN LET slash == i + 27 <= Len(s) /\ s[i + 27] = "/"
             end   == IF slash THEN i + 27 ELSE i + 26
         IN  <<SubSeq(s, i, end)>> \o FindAllWithSlash(s, end + 1)
    ELSE FindAllWithSlash(s, i + 1)

\* FOLDER_PATTERN.findall(html) from position i: the matches found scanning
\* left to right, none overlapping another; of each, group 1 (the 27
\* characters without the optional slash).
RECURSIVE FindAll(_, _)
FindAll(s, i) ==
    IF i > Len(s) THEN <<>>
    ELSE IF PrefixMatches(SubSeq(s, i, Len(s)))
    THEN LET slash == i + 27 <= Len(s) /\ s[i + 27] = "/"
             end   == IF slash THEN i + 27 ELSE i + 26
         IN  <<SubSeq(s, i, i + 26)>> \o FindAll(s, end + 1)
    ELSE FindAll(s, i + 1)

NetworkErrorMsg == "Network error"
FailedFetchMsg == "Failed to fetch remote listing"
EmptyListingMsg == "No folders found in remote listing"
FoundMsg == "Found folders on server"

\* What urlopen(BASE_URL) and response.read() may do: raise URLError (no
\* connection, DNS failure, timeout while connecting), raise another
\* exception (socket timeout while the response is awaited or read, which
\* urllib does not wrap in URLError), or deliver the body.
FetchOutcomes == {"URLError", "Timeout", "body"}

\* fetch_remote_folders() under the outcome env with the listing html:
\* <<ok, names, message>>.
fetch_remote_folders(env, html) ==
    IF env = "URLError" THEN <<FALSE, <<>>, NetworkErrorMsg>>
    ELSE IF env = "Timeout" THEN <<FALSE, <<>>, FailedFetchMsg>>
    ELSE LET found == FindAll(html, 1)
             names == SortedChars({found[i] : i \in 1..Len(found)})
         IN  IF names = <<>>
             THEN <<FALSE, <<>>, EmptyListingMsg>>
             ELSE <<TRUE, names, FoundMsg>>

\* --------------------------------------------------------------- state
VARIABLES
    fs,                 \* LOGS_DIR: name -> [kind, files]
    server_length,      \* the Content-Length the server announces
    remote_names,       \* build_ui: list of names of the last listing
    local_names,        \* build_ui: complete folders at the last refresh
    partial_names,      \* build_ui: partial folders at the last refresh
    tree,               \* the Treeview's rows, in display order
    selection,          \* tree.selection()
    status_var,         \* the text of the status line
    is_downloading,     \* tk.BooleanVar
    cancel_requested,   \* threading.Event
    cancel_btn,         \* state of the "Cancel download" button
    overall_expected,   \* dict (folder, filename) -> Content-Length
    overall_downloaded, \* dict (folder, filename) -> bytes so far
    active_threads,     \* run_download threads started and not yet ended
    finalize_pending,   \* root.after(0, finalize) queued, not yet run
    pc,                 \* the worker's position
    selected_folders,   \* download_selected: the worker's list
    skipped,            \* download_selected: already complete, left out
    idx,                \* run_download: position in selected_folders
    failures,           \* run_download: list of <<folder, message>>
    successes,          \* run_download: count
    file_idx,           \* download_folder: position in FILES_TO_FETCH
    existed_before,     \* download_folder
    downloaded,         \* stream_download
    total,              \* stream_download
    chunk,              \* stream_download: the chunk read, not yet written
    reads_left,         \* chunks the response may still deliver
    sd_result,          \* stream_download's return value <<ok, msg>>
    df_result,          \* the last download_folder return value <<ok, msg>>
    \* history variables (observers, read by no action's guard)
    fs_before,          \* fs when the current download_folder was entered
    sd_before,          \* [dest, cancel]: dest_path existed when the current
                        \* stream_download was entered; the flag was set by
                        \* then ("before"), in its loop ("during"), or not ("no")
    calls,              \* bytes_so_far of each progress call of this stream_download
    chunks,             \* sizes of the chunks this stream_download wrote
    cancel_bytes,       \* bytes written since the pending cancel request
    succeeded,          \* folders counted in successes, in order
    requests,           \* <<folder, filename>> of each urlopen of this run
    \* one call of a function of the module, its argument and its result
    fn_op,              \* "none", "parse", "sort", "fetch" or "hook"
    fn_args,            \* the names the argument is built from: [st, en, shape];
                        \* hook: the callbacks still to come, [key, downloaded, total]
    fn_env,             \* fetch: what urlopen and read do
    fn_done,            \* the call has returned
    out_parse,          \* parse_folder_name's result
    out_names,          \* the sorted list, or fetch_remote_folders()[1]
    out_ok,             \* fetch_remote_folders()[0]
    out_msg,            \* fetch_remote_folders()[2]
    out_percent,        \* progress_hook's percent, <<numerator, denominator>>
    out_headers,        \* load_csv_file()[2]
    out_preview,        \* load_csv_file()[3]
    out_rows,           \* load_csv_file()[4]
    out_counts,         \* the message's <<Total, Success, Fail>>
    \* the MWO viewer (3_mwo-analysis.py): build_ui's filter state
    saved_filter_state,     \* what mwo_filter_state.json held, or the last save
    saved_filters_applied,  \* build_ui's flag
    selected_apm_vars,      \* APM id -> its checkbox
    accident_yes_var,
    accident_no_var,
    accident_all_var,
    current_rows,           \* the APM column of the rows loaded
    loads                   \* successful loads of the session so far, up to MaxLoads

uiVars == <<remote_names, local_names, partial_names, tree, selection, status_var>>
runVars == <<is_downloading, cancel_requested, cancel_btn, active_threads,
             finalize_pending, selected_folders, skipped>>
accVars == <<overall_expected, overall_downloaded>>
loopVars == <<idx, failures, successes, succeeded, df_result>>
fileVars == <<file_idx, existed_before, downloaded, total, chunk, reads_left,
              sd_result, fs_before, sd_before, calls, chunks>>
appVars == <<fs, server_length, uiVars, runVars, accVars, pc, loopVars, fileVars,
             cancel_bytes, requests>>
csvOut == <<out_headers, out_preview, out_rows, out_counts>>
fnVars == <<fn_op, fn_args, fn_env, fn_done, out_parse, out_names, out_ok, out_msg,
           out_percent, csvOut>>
mwoVars == <<saved_filter_state, saved_filters_applied, selected_apm_vars,
            accident_yes_var, accident_no_var, accident_all_var, current_rows, loads>>
vars == <<appVars, fnVars, mwoVars>>

Absent == [kind |-> "absent", files |-> {}]
AFile == [kind |-> "file", files |-> {}]
Dir(S) == [kind |-> "dir", files |-> S]

NetErr == "Network error while downloading"
SaveErr == "Failed to save"
Cancelled == "Cancelled"
NoResult == <<FALSE, "">>

\* The texts download_selected, request_cancel and finalize put on the status
\* line, each the sequence of its parts; refresh puts <<message>> there.
AllDoneMsg == <<"All selected folders already downloaded; nothing to do.">>
CancellingMsg == <<"Cancelling download...">>
DownloadedMsg(n, k) ==
    IF k # 0
    THEN <<"Downloaded", n, "folder(s)", "; skipped", k, "already complete">>
    ELSE <<"Downloaded", n, "folder(s)">>

\* The names FOLDER_PATTERN matches, computed once.
Matching == {n \in Names : FOLDER_PATTERN(n)}

\* Names the remote listing may hold: those the regex extracts.
RemoteUniverse == Matching

\* int(total_header) of the responses: the server of the model announces
\* MaxChunks chunks of bytes for every file; the body that arrives holds that
\* many or, the connection closing early, fewer (resp.read returns no more
\* than the announced length).
Totals == {MaxChunks * CHUNK_SIZE}

\* resp.read(8192) before the end of the body: a short or a full chunk.
ReadSizes == {CHUNK_SIZE}

\* The dict rebuilt with the one key: d = {key: v}
DictSetOnly(d, key, v) == [k \in {key} |-> v]

\* dict with one key set: d[key] = v
DictSet(d, key, v) ==
    [k \in DOMAIN d \cup {key} |-> IF k = key THEN v ELSE d[k]]

\* dict.clear()
EmptyDict == [k \in {} |-> 0]

\* sum(d.values())
RECURSIVE DictSum(_)
DictSum(d) ==
    IF DOMAIN d = {} THEN 0
    ELSE LET k == CHOOSE x \in DOMAIN d : TRUE
         IN  d[k] + DictSum([x \in DOMAIN d \ {k} |-> d[x]])

\* local_folder_status with any() where the code has all().
LocalCompleteAny(f) ==
    {n \in Names :
        /\ f[n].kind = "dir"
        /\ n \in Matching
        /\ \E name \in Required : name \in {x \in f[n].files : IsCsv(x)}}

\* local_folder_status()[0]: folders holding every required CSV.
LocalComplete(f) ==
    {n \in Names :
        /\ f[n].kind = "dir"
        /\ n \in Matching
        /\ \A name \in Required : name \in {x \in f[n].files : IsCsv(x)}}

\* local_folder_status()[1]: matching directories missing a required CSV.
LocalPartial(f) ==
    {n \in Names :
        /\ f[n].kind = "dir"
        /\ n \in Matching
        /\ ~(\A name \in Required : name \in {x \in f[n].files : IsCsv(x)})}

\* fetch_remote_folders(): <<ok, names>>.  The listing of the model is
\* served and names both remote folders.
FetchResults ==
    {<<TRUE, SortedByKey(RemoteUniverse)>>}

SeqToSet(s) == {s[i] : i \in 1..Len(s)}

\* sorted(Names, key=folder_sort_key), computed once.
SortedNames == SortedByKey(Names)

\* apply_filter(select_after=False) with filter_days = None: the rows.
TreeRows(remote, local, partial) ==
    IF remote = <<>>
    THEN SelectSeq(SortedNames, LAMBDA n : n \in local \cup partial)
    ELSE remote

\* The directories a logs root may hold when the application starts.
InitEntries(n) ==
    IF n \in Matching
    THEN {Absent, AFile, Dir({ARB}), Dir(Required)}
    ELSE {Dir(Required)}

\* The application after build_ui() and the first refresh.
AppInit ==
    /\ fs \in {f \in [Names -> {Absent, AFile} \cup {Dir(S) : S \in SUBSET Required}] :
                 \A n \in Names : f[n] \in InitEntries(n)}
    /\ \E r \in FetchResults :
          /\ remote_names = r[2]
          /\ local_names = LocalComplete(fs)
          /\ partial_names = LocalPartial(fs)
          /\ tree = TreeRows(r[2], LocalComplete(fs), LocalPartial(fs))
          /\ status_var = <<FoundMsg>>
    /\ server_length \in Totals
    /\ selection = {}
    /\ is_downloading = FALSE
    /\ cancel_requested = FALSE
    /\ cancel_btn = "disabled"
    /\ overall_expected = EmptyDict
    /\ overall_downloaded = EmptyDict
    /\ active_threads = 0
    /\ finalize_pending = FALSE
    /\ pc = "none"
    /\ selected_folders = <<>>
    /\ skipped = 0
    /\ idx = 0
    /\ failures = <<>>
    /\ successes = 0
    /\ file_idx = 0
    /\ existed_before = FALSE
    /\ downloaded = 0
    /\ total = 0
    /\ chunk = 0
    /\ reads_left = 0
    /\ sd_result = NoResult
    /\ df_result = NoResult
    /\ fs_before = fs
    /\ sd_before = [dest |-> FALSE, cancel |-> "no"]
    /\ calls = <<>>
    /\ chunks = <<>>
    /\ cancel_bytes = 0
    /\ succeeded = <<>>
    /\ requests = <<>>

\* No function call under way.
FnIdle ==
    /\ fn_op = "none"
    /\ fn_args = <<>>
    /\ fn_env = "body"
    /\ fn_done = FALSE
    /\ out_parse = <<NoneDT, NoneDT>>
    /\ out_names = <<>>
    /\ out_ok = FALSE
    /\ out_msg = ""
    /\ out_percent = <<0, 1>>
    /\ out_headers = <<>>
    /\ out_preview = <<>>
    /\ out_rows = <<>>
    /\ out_counts = <<0, 0, 0>>

\* The MWO viewer as build_ui leaves it with no filter file on disk.
MwoIdle ==
    /\ saved_filter_state = EmptyDict
    /\ saved_filters_applied = FALSE
    /\ selected_apm_vars = EmptyDict
    /\ accident_yes_var = FALSE
    /\ accident_no_var = FALSE
    /\ accident_all_var = TRUE
    /\ current_rows = {}
    /\ loads = 0

Init == AppInit /\ FnIdle /\ MwoIdle

\* stream_download's locals (and their observers) once the call has returned.
SdLocalsGone ==
    /\ downloaded' = 0
    /\ total' = 0
    /\ chunk' = 0
    /\ reads_left' = 0
    /\ sd_result' = NoResult
    /\ sd_before' = [dest |-> FALSE, cancel |-> "no"]
    /\ calls' = <<>>
    /\ chunks' = <<>>

\* download_folder's locals (and their observers) once the call has returned.
DfLocalsGone ==
    /\ file_idx' = 0
    /\ existed_before' = FALSE
    /\ df_result' = NoResult
    /\ fs_before' = fs

\* run_download's locals (and their observers) once the thread has ended and
\* finalize, the last reader of them, has run.
RunLocalsGone ==
    /\ selected_folders' = <<>>
    /\ skipped' = 0
    /\ idx' = 0
    /\ failures' = <<>>
    /\ successes' = 0
    /\ succeeded' = <<>>
    /\ cancel_bytes' = 0
    /\ requests' = <<>>

\* ------------------------------------------------------- main thread
\* refresh(): the listing is fetched, the local status scanned, the status
\* line set to the fetch's message, the tree rebuilt (its rows deleted, so
\* nothing stays selected).
RefreshUpdate ==
    \E r \in FetchResults :
        /\ status_var' = <<FoundMsg>>
        /\ remote_names' = r[2]
        /\ local_names' = LocalComplete(fs)
        /\ partial_names' = LocalPartial(fs)
        /\ tree' = TreeRows(r[2], LocalComplete(fs), LocalPartial(fs))
        /\ selection' = {}

\* The "Refresh remote list" button.
Refresh ==
    /\ RefreshUpdate
    /\ UNCHANGED <<fs, server_length, runVars, accVars, pc, loopVars, fileVars, cancel_bytes>>
    /\ UNCHANGED <<requests, fnVars, mwoVars>>

\* The user changes the selected rows of the tree.
SelectRows ==
    /\ \E S \in SUBSET SeqToSet(tree) : S # selection /\ selection' = S
    /\ UNCHANGED <<fs, server_length, remote_names, local_names, partial_names, tree, runVars,
                   accVars, pc, loopVars, fileVars, cancel_bytes, status_var>>
    /\ UNCHANGED <<requests, fnVars, mwoVars>>

\* download_selected: the folders of the selected rows, in row order.
SelectedItems == SelectSeq(tree, LAMBDA n : n \in selection)

\* download_selected with no folder left out.
IsSkippedNever(folder) == FALSE

\* download_selected: a selected folder already complete is left out.
IsSkipped(folder) == folder \in local_names /\ folder \notin partial_names

\* download_selected, refused: nothing selected, or a download in progress.
DownloadSelectedRefused ==
    /\ selection = {} \/ is_downloading
    /\ UNCHANGED vars

\* download_selected, every selected folder already complete: the status
\* line says so and nothing else is done.
DownloadSelectedNothing ==
    /\ selection # {} /\ ~is_downloading
    /\ SelectSeq(SelectedItems, LAMBDA n : ~IsSkipped(n)) = <<>>
    /\ status_var' = AllDoneMsg
    /\ UNCHANGED <<fs, server_length, remote_names, local_names, partial_names, tree,
                   selection, runVars, accVars, pc, loopVars, fileVars, cancel_bytes>>
    /\ UNCHANGED <<requests, fnVars, mwoVars>>

\* download_selected without its is_downloading check.
DownloadSelectedStartAnyway ==
    /\ selection # {}
    /\ LET todo == SelectSeq(SelectedItems, LAMBDA n : ~IsSkipped(n)) IN
        /\ todo # <<>>
        /\ selected_folders' = todo
        /\ skipped' = Len(SelectedItems) - Len(todo)
    /\ cancel_requested' = FALSE
    /\ is_downloading' = TRUE
    /\ overall_expected' = EmptyDict
    /\ overall_downloaded' = EmptyDict
    /\ cancel_btn' = "normal"
    /\ active_threads' = active_threads + 1
    /\ pc' = "loop"
    /\ idx' = 1
    /\ failures' = <<>>
    /\ successes' = 0
    /\ succeeded' = <<>>
    /\ cancel_bytes' = 0
    /\ requests' = <<>>
    /\ UNCHANGED <<fs, server_length, uiVars, finalize_pending, df_result, fileVars>>
    /\ UNCHANGED <<fnVars, mwoVars>>

\* download_selected starting a worker thread.
DownloadSelectedStart ==
    /\ selection # {} /\ ~is_downloading
    /\ LET todo == SelectSeq(SelectedItems, LAMBDA n : ~IsSkipped(n)) IN
        /\ todo # <<>>
        /\ selected_folders' = todo
        /\ skipped' = Len(SelectedItems) - Len(todo)
    /\ cancel_requested' = FALSE
    /\ is_downloading' = TRUE
    /\ overall_expected' = EmptyDict
    /\ overall_downloaded' = EmptyDict
    /\ cancel_btn' = "normal"
    /\ active_threads' = active_threads + 1
    /\ pc' = "loop"
    /\ idx' = 1
    /\ failures' = <<>>
    /\ successes' = 0
    /\ succeeded' = <<>>
    /\ cancel_bytes' = 0
    /\ requests' = <<>>
    /\ UNCHANGED <<fs, server_length, uiVars, finalize_pending, df_result, fileVars>>
    /\ UNCHANGED <<fnVars, mwoVars>>

download_selected ==
    \/ DownloadSelectedRefused
    \/ DownloadSelectedNothing
    \/ DownloadSelectedStart

\* request_cancel without its is_downloading check.
request_cancel_unguarded ==
    /\ cancel_requested' = TRUE
    /\ status_var' = CancellingMsg
    /\ cancel_bytes' = IF cancel_requested THEN cancel_bytes ELSE 0
    /\ sd_before' =
          IF ~cancel_requested /\ pc \in {"sd_read", "sd_write"}
          THEN [sd_before EXCEPT !.cancel = "during"]
          ELSE sd_before
    /\ UNCHANGED <<fs, server_length, remote_names, local_names, partial_names, tree,
                   selection, is_downloading, cancel_btn,
                   active_threads, finalize_pending, selected_folders, skipped,
                   accVars, pc, loopVars, file_idx, existed_before, downloaded,
                   total, chunk, reads_left, sd_result, fs_before, calls, chunks>>
    /\ UNCHANGED <<requests, fnVars, mwoVars>>

\* request_cancel
request_cancel ==
    /\ IF is_downloading
       THEN /\ cancel_requested' = TRUE
            /\ status_var' = CancellingMsg
            /\ cancel_bytes' = IF cancel_requested THEN cancel_bytes ELSE 0
            /\ sd_before' =
                  IF ~cancel_requested /\ pc \in {"sd_read", "sd_write"}
                  THEN [sd_before EXCEPT !.cancel = "during"]
                  ELSE sd_before
       ELSE UNCHANGED <<cancel_requested, cancel_bytes, sd_before, status_var>>
    /\ UNCHANGED <<fs, server_length, remote_names, local_names, partial_names, tree,
                   selection, is_downloading, cancel_btn,
                   active_threads, finalize_pending, selected_folders, skipped,
                   accVars, pc, loopVars, file_idx, existed_before, downloaded,
                   total, chunk, reads_left, sd_result, fs_before, calls, chunks>>
    /\ UNCHANGED <<requests, fnVars, mwoVars>>

\* finalize, run by the main loop once the worker queued it.  The summary it
\* puts on the status line when successes is not 0, DownloadedMsg(successes,
\* skipped), is replaced within the handler by the texts of the refresh() it
\* calls next: the line is left at the fetch's message.
finalize ==
    /\ finalize_pending
    /\ finalize_pending' = FALSE
    /\ is_downloading' = FALSE
    /\ cancel_btn' = "disabled"
    /\ RefreshUpdate
    /\ pc' = "none"
    /\ RunLocalsGone
    /\ UNCHANGED <<fs, server_length, cancel_requested, active_threads, accVars, df_result,
                   fileVars>>
    /\ UNCHANGED <<fnVars, mwoVars>>

\* ----------------------------------------------------- worker thread
Folder == selected_folders[idx]
Filename == FILES_TO_FETCH[file_idx]

\* temp_path.unlink(missing_ok=True)
Unlink(f, folder, name) ==
    IF f[folder].kind = "dir"
    THEN [f EXCEPT ![folder].files = @ \ {name}]
    ELSE f

\* The chunks written to dest_path itself: open("wb") on the final name.
CreateAtDest(f, folder, name) == [f EXCEPT ![folder].files = @ \cup {Filename}]

\* temp_path.open("wb"): the file is created (or truncated).
Create(f, folder, name) == [f EXCEPT ![folder].files = @ \cup {name}]

\* The .part file removed and nothing put under the final name.
RenameLost(f, folder, from, to) ==
    [f EXCEPT ![folder].files = @ \ {from}]

\* temp_path.rename(dest_path)
Rename(f, folder, from, to) ==
    [f EXCEPT ![folder].files = (@ \ {from}) \cup {to}]

\* run_download's last statement, root.after(0, finalize), after which the
\* thread ends; it follows the loop's exit with no shared access between.
QueueFinalize ==
    /\ finalize_pending' = TRUE
    /\ active_threads' = active_threads - 1
    /\ pc' = "exited"

\* The loop over selected_folders without the cancel check before a folder.
LoopTopNoCancelCheck ==
    /\ pc = "loop"
    /\ IF idx > Len(selected_folders)
       THEN /\ QueueFinalize
            /\ UNCHANGED failures
       ELSE /\ pc' = "df_enter"
            /\ UNCHANGED <<failures, finalize_pending, active_threads>>
    /\ UNCHANGED <<fs, server_length, uiVars, is_downloading, cancel_requested,
                   cancel_btn, selected_folders, skipped, accVars, idx,
                   successes, succeeded, df_result, fileVars, cancel_bytes>>
    /\ UNCHANGED <<requests, fnVars, mwoVars>>

\* run_download, top of the loop over selected_folders: the cancel check
\* before each folder; past the last folder the loop ends.
LoopTop ==
    /\ pc = "loop"
    /\ IF idx > Len(selected_folders)
       THEN /\ QueueFinalize
            /\ UNCHANGED failures
       ELSE IF cancel_requested
       THEN /\ failures' = Append(failures, <<Folder, Cancelled>>)
            /\ QueueFinalize
       ELSE /\ pc' = "df_enter"
            /\ UNCHANGED <<failures, finalize_pending, active_threads>>
    /\ UNCHANGED <<fs, server_length, uiVars, is_downloading, cancel_requested,
                   cancel_btn, selected_folders, skipped, accVars, idx,
                   successes, succeeded, df_result, fileVars, cancel_bytes>>
    /\ UNCHANGED <<requests, fnVars, mwoVars>>

\* download_folder, before its try: existed_before and mkdir succeed.
DfEnterOk ==
    /\ pc = "df_enter"
    /\ fs[Folder].kind # "file"
    /\ existed_before' = (fs[Folder].kind # "absent")
    /\ fs' = IF fs[Folder].kind = "absent"
             THEN [fs EXCEPT ![Folder] = Dir({})]
             ELSE fs
    /\ fs_before' = fs
    /\ file_idx' = 1
    /\ pc' = "sd_open"
    /\ UNCHANGED <<server_length, uiVars, runVars, accVars, loopVars, downloaded, total, chunk,
                   reads_left, sd_result, sd_before, calls, chunks,
                   cancel_bytes>>
    /\ UNCHANGED <<requests, fnVars, mwoVars>>

\* download_folder, before its try: mkdir raises (the path is a regular
\* file, or the directory cannot be created).  Nothing in run_download
\* catches it: the thread ends with finalize never queued.
DfEnterRaises ==
    /\ pc = "df_enter"
    /\ fs[Folder].kind # "dir"
    /\ pc' = "crashed"
    /\ active_threads' = active_threads - 1
    /\ RunLocalsGone
    /\ UNCHANGED <<fs, server_length, uiVars, is_downloading, cancel_requested, cancel_btn,
                   finalize_pending, accVars, df_result, fileVars>>
    /\ UNCHANGED <<fnVars, mwoVars>>

\* The flag as it was when the file's download began.
cancel_flag_at_start == sd_before.cancel = "before"

\* cancel_flag(): cancel_requested.is_set, read when it is called.
cancel_flag == cancel_requested

\* The cancel branch returning without the unlink.
CancelCleanupNone(f, folder, name) == f

\* The cancel branch of stream_download's loop: temp_path.unlink(missing_ok=True).
CancelCleanup(f, folder, name) == Unlink(f, folder, name)

\* downloaded = len(chunk)
AdvanceLast(d, c) == c

\* downloaded += len(chunk)
Advance(d, c) == d + c

\* The except clauses without temp_path.unlink.
SdFailKeepPart(msg) ==
    /\ fs' = fs
    /\ sd_result' = <<FALSE, msg>>
    /\ pc' = "sd_ret"

\* stream_download's except clauses: the .part file is unlinked and
\* (False, msg, downloaded) returned.
SdFail(msg) ==
    /\ fs' = Unlink(fs, Folder, PartOf(Filename))
    /\ sd_result' = <<FALSE, msg>>
    /\ pc' = "sd_ret"

\* stream_download up to the opening of the .part file.
SdOpen ==
    /\ pc = "sd_open"
    /\ sd_before' = [dest |-> Filename \in fs[Folder].files,
                     cancel |-> IF cancel_requested THEN "before" ELSE "no"]
    /\ downloaded' = 0
    /\ calls' = <<>>
    /\ chunks' = <<>>
    /\ chunk' = 0
    /\ requests' = Append(requests, <<Folder, Filename>>)
    /\ \/ \* urlopen raises URLError, or another exception
          /\ \E msg \in {NetErr, SaveErr} : SdFail(msg)
          /\ UNCHANGED <<total, reads_left>>
       \/ \* the response is open; temp_path.open("wb") raises
          /\ total' = server_length
          /\ SdFail(SaveErr)
          /\ UNCHANGED reads_left
       \/ \* both succeed
          /\ total' = server_length
          /\ fs' = Create(fs, Folder, PartOf(Filename))
          /\ reads_left' = MaxChunks
          /\ pc' = "sd_read"
          /\ UNCHANGED sd_result
    /\ UNCHANGED <<server_length, uiVars, runVars, accVars, loopVars, file_idx, existed_before,
                   fs_before, cancel_bytes>>
    /\ UNCHANGED <<fnVars, mwoVars>>

\* stream_download's loop: resp.read, the end-of-body test and the cancel
\* check before the write; at the end of the body, the rename that follows
\* the loop (no shared access lies between).
SdRead ==
    /\ pc = "sd_read"
    /\ \/ \* resp.read raises
          /\ SdFail(SaveErr)
          /\ UNCHANGED <<chunk, reads_left>>
       \/ \* not chunk: break; closing the file or temp_path.rename raises
          /\ SdFail(SaveErr)
          /\ UNCHANGED <<chunk, reads_left>>
       \/ \* not chunk: break; the .part file is renamed into place
          /\ fs' = Rename(fs, Folder, PartOf(Filename), Filename)
          /\ sd_result' = <<TRUE, "ok">>
          /\ pc' = "sd_ret"
          /\ UNCHANGED <<chunk, reads_left>>
       \/ \* a chunk
          /\ reads_left > 0
          /\ \E n \in ReadSizes :
               IF cancel_flag
               THEN /\ fs' = CancelCleanup(fs, Folder, PartOf(Filename))
                    /\ sd_result' = <<FALSE, Cancelled>>
                    /\ pc' = "sd_ret"
                    /\ UNCHANGED <<chunk, reads_left>>
               ELSE /\ chunk' = n
                    /\ reads_left' = reads_left - 1
                    /\ pc' = "sd_write"
                    /\ UNCHANGED <<fs, sd_result>>
    /\ UNCHANGED <<server_length, uiVars, runVars, accVars, loopVars, file_idx, existed_before,
                   downloaded, total, fs_before, sd_before, calls, chunks,
                   cancel_bytes>>
    /\ UNCHANGED <<requests, fnVars, mwoVars>>

\* progress_hook (run_download's, through per_file_progress): the two dicts.
HookExpected(key, tot) ==
    IF tot # 0 /\ key \notin DOMAIN overall_expected
    THEN DictSet(overall_expected, key, tot)
    ELSE overall_expected

\* stream_download's loop: handle.write, downloaded += len(chunk), the
\* progress callback.
SdWrite ==
    /\ pc = "sd_write"
    /\ \/ \* handle.write raises
          /\ SdFail(SaveErr)
          /\ UNCHANGED <<downloaded, calls, chunks, accVars, cancel_bytes>>
       \/ \* the chunk is written and the callback made
          /\ downloaded' = Advance(downloaded, chunk)
          /\ chunks' = Append(chunks, chunk)
          /\ cancel_bytes' = IF cancel_requested THEN cancel_bytes + chunk
                             ELSE cancel_bytes
          /\ calls' = Append(calls, downloaded')
          /\ overall_downloaded' =
                DictSet(overall_downloaded, <<Folder, Filename>>, downloaded')
          /\ overall_expected' = HookExpected(<<Folder, Filename>>, total)
          /\ \/ \* the callback returns
                /\ pc' = "sd_read"
                /\ UNCHANGED <<fs, sd_result>>
             \/ \* the callback raises (root.after from the worker thread)
                SdFail(SaveErr)
    /\ chunk' = 0
    /\ UNCHANGED <<server_length, uiVars, runVars, loopVars, file_idx, existed_before, total,
                   reads_left, fs_before, sd_before>>
    /\ UNCHANGED <<requests, fnVars, mwoVars>>

\* download_folder's except clause without the rmtree.
RmtreeNever(f, folder, existed) == f

\* download_folder's except clause with existed_before ignored.
RmtreeAlways(f, folder, existed) ==
    IF f[folder].kind # "absent" THEN [f EXCEPT ![folder] = Absent] ELSE f

\* download_folder's except clause: a directory this call created is removed.
RmtreeIfCreated(f, folder, existed) ==
    IF ~existed /\ f[folder].kind # "absent"
    THEN [f EXCEPT ![folder] = Absent]
    ELSE f

\* download_folder going on to the next file whatever the last one returned.
SdReturnContinue ==
    /\ pc = "sd_ret"
    /\ IF file_idx < Len(FILES_TO_FETCH)
       THEN /\ file_idx' = file_idx + 1
            /\ pc' = "sd_open"
            /\ UNCHANGED <<fs, loopVars>>
       ELSE IF sd_result[1]
       THEN /\ df_result' = <<TRUE, "Downloaded">>
            /\ successes' = successes + 1
            /\ succeeded' = Append(succeeded, Folder)
            /\ pc' = "post"
            /\ UNCHANGED <<fs, file_idx, idx, failures>>
       ELSE /\ fs' = RmtreeIfCreated(fs, Folder, existed_before)
            /\ df_result' = <<FALSE, sd_result[2]>>
            /\ failures' = Append(failures, <<Folder, sd_result[2]>>)
            /\ pc' = "post"
            /\ UNCHANGED <<file_idx, idx, successes, succeeded>>
    /\ SdLocalsGone
    /\ UNCHANGED <<server_length, uiVars, runVars, accVars, existed_before, fs_before,
                   cancel_bytes>>
    /\ UNCHANGED <<requests, fnVars, mwoVars>>

\* download_folder after a stream_download returned, and run_download's
\* count of the folder's result.
SdReturn ==
    /\ pc = "sd_ret"
    /\ IF sd_result[1]
       THEN IF file_idx < Len(FILES_TO_FETCH)
            THEN /\ file_idx' = file_idx + 1
                 /\ pc' = "sd_open"
                 /\ UNCHANGED <<fs, loopVars>>
            ELSE /\ df_result' = <<TRUE, "Downloaded">>
                 /\ successes' = successes + 1
                 /\ succeeded' = Append(succeeded, Folder)
                 /\ pc' = "post"
                 /\ UNCHANGED <<fs, file_idx, idx, failures>>
       ELSE /\ fs' = RmtreeIfCreated(fs, Folder, existed_before)
            /\ df_result' = <<FALSE, sd_result[2]>>
            /\ failures' = Append(failures, <<Folder, sd_result[2]>>)
            /\ pc' = "post"
            /\ UNCHANGED <<file_idx, idx, successes, succeeded>>
    /\ SdLocalsGone
    /\ UNCHANGED <<server_length, uiVars, runVars, accVars, existed_before, fs_before,
                   cancel_bytes>>
    /\ UNCHANGED <<requests, fnVars, mwoVars>>

\* run_download leaving its loop at the first failed folder.
PostCheckBreakOnFailure ==
    /\ pc = "post"
    /\ IF cancel_requested \/ ~df_result[1]
       THEN /\ QueueFinalize
            /\ UNCHANGED idx
       ELSE /\ pc' = "loop"
            /\ idx' = idx + 1
            /\ UNCHANGED <<finalize_pending, active_threads>>
    /\ DfLocalsGone
    /\ UNCHANGED <<fs, server_length, uiVars, is_downloading, cancel_requested,
                   cancel_btn, selected_folders, skipped, accVars, failures,
                   successes, succeeded, downloaded, total, chunk, reads_left,
                   sd_result, sd_before, calls, chunks, cancel_bytes>>
    /\ UNCHANGED <<requests, fnVars, mwoVars>>

\* run_download going round its loop again on a folder that failed.
PostCheckRepeat ==
    /\ pc = "post"
    /\ IF cancel_requested
       THEN /\ QueueFinalize
            /\ UNCHANGED idx
       ELSE /\ pc' = "loop"
            /\ idx' = IF df_result[1] THEN idx + 1 ELSE idx
            /\ UNCHANGED <<finalize_pending, active_threads>>
    /\ DfLocalsGone
    /\ UNCHANGED <<fs, server_length, uiVars, is_downloading, cancel_requested,
                   cancel_btn, selected_folders, skipped, accVars, failures,
                   successes, succeeded, downloaded, total, chunk, reads_left,
                   sd_result, sd_before, calls, chunks, cancel_bytes>>
    /\ UNCHANGED <<requests, fnVars, mwoVars>>

\* run_download, end of the loop body: the cancel check after each folder.
PostCheck ==
    /\ pc = "post"
    /\ IF cancel_requested
       THEN /\ QueueFinalize
            /\ UNCHANGED idx
       ELSE /\ pc' = "loop"
            /\ idx' = idx + 1
            /\ UNCHANGED <<finalize_pending, active_threads>>
    /\ DfLocalsGone
    /\ UNCHANGED <<fs, server_length, uiVars, is_downloading, cancel_requested,
                   cancel_btn, selected_folders, skipped, accVars, failures,
                   successes, succeeded,
                   downloaded, total, chunk, reads_left, sd_result, sd_before,
                   calls, chunks, cancel_bytes>>
    /\ UNCHANGED <<requests, fnVars, mwoVars>>

download_folder == DfEnterOk \/ DfEnterRaises \/ SdReturn
stream_download == SdOpen \/ SdRead \/ SdWrite
run_download == LoopTop \/ download_folder \/ stream_download \/ PostCheck

Next ==
    \/ Refresh
    \/ SelectRows
    \/ download_selected
    \/ request_cancel
    \/ finalize
    \/ run_download

Spec == Init /\ [][Next]_vars

\* The worker thread, once started, keeps being scheduled, and the Tk main
\* loop runs a callback queued with root.after.
FairSpec == Spec /\ WF_vars(run_download) /\ WF_vars(finalize)

\* ------------------------------------------- the functions, called alone
\* A folder name is written from the fields of its two halves,
\* <<year, month, day, hour, minute>>, as "%Y%m%d-%H%M_%Y%m%d-%H%M"; the
\* shape says how the string departs from that form, if it does.
Pad2(n) == <<Digits[((n \div 10) % 10) + 1], Digits[(n % 10) + 1]>>
Pad4(n) == Pad2(n \div 100) \o Pad2(n % 100)
Half(dt) ==
    Pad4(dt[1]) \o Pad2(dt[2]) \o Pad2(dt[3]) \o <<"-">> \o Pad2(dt[4]) \o Pad2(dt[5])
WellFormed(it) == Half(it.st) \o <<"_">> \o Half(it.en)

Shapes == {"ok", "slash", "suffix", "lead", "trunc", "sep", "letter", "empty"}

\* The characters of the string an item stands for.
Render(it) ==
    LET w == WellFormed(it) IN
    CASE it.shape = "ok"     -> w
      [] it.shape = "slash"  -> w \o <<"/">>
      [] it.shape = "suffix" -> w \o <<"x">>
      [] it.shape = "lead"   -> <<"x">> \o w
      [] it.shape = "trunc"  -> SubSeq(w, 1, 26)
      [] it.shape = "sep"    -> [w EXCEPT ![14] = "-"]
      [] it.shape = "letter" -> [w EXCEPT ![1] = "x"]
      [] OTHER               -> <<>>

\* The halves the names of the parse calls are written from: real dates and
\* times, and month 13, day 0, 29 and 30 February, hour 25.
StartFields ==
    {<<y, mo, d, h, mi>> : y \in {2023, 2024}, mo \in {1, 2, 13},
                           d \in {0, 1, 29, 30}, h \in {0, 23, 25}, mi \in {0, 59}}
EndFields ==
    {<<2024, 1, 1, 1, 0>>, <<2023, 1, 1, 0, 0>>, <<2024, 2, 29, 23, 59>>,
     <<2024, 13, 1, 0, 0>>, <<2025, 1, 1, 0, 0>>}

ParseInputs ==
    {[st |-> a, en |-> b, shape |-> sh] :
        a \in StartFields, b \in EndFields, sh \in Shapes}

Item(st, en, shape) == [st |-> st, en |-> en, shape |-> shape]

\* The strings the lists and the listings are made of: two folders of
\* different years, two of one start, one from before 1970, one of month 13,
\* a name with its slash, one inside other text, a truncated one and one
\* with a letter among its digits.
Pool ==
    {Item(<<2024, 1, 1, 0, 0>>, <<2024, 1, 1, 1, 0>>, "ok"),
     Item(<<2023, 1, 1, 0, 0>>, <<2023, 1, 1, 1, 0>>, "ok"),
     Item(<<2024, 1, 1, 0, 0>>, <<2024, 1, 1, 2, 0>>, "ok"),
     Item(<<1969, 1, 1, 0, 0>>, <<1969, 1, 1, 1, 0>>, "ok"),
     Item(<<2024, 13, 1, 0, 0>>, <<2024, 13, 1, 1, 0>>, "ok"),
     Item(<<2024, 1, 1, 0, 0>>, <<2024, 1, 1, 1, 0>>, "slash"),
     Item(<<2023, 1, 1, 0, 0>>, <<2023, 1, 1, 1, 0>>, "lead"),
     Item(<<2024, 1, 1, 0, 0>>, <<2024, 1, 1, 1, 0>>, "trunc"),
     Item(<<2024, 1, 1, 0, 0>>, <<2024, 1, 1, 2, 0>>, "letter")}

\* The most strings in one list or listing.
MaxItems == 3

ItemLists == UNION {[1..n -> Pool] : n \in 0..MaxItems}

\* The listing's text: the strings one after another, "<" before each and
\* at the end.
RECURSIVE Body(_)
Body(items) ==
    IF items = <<>> THEN <<"<">>
    ELSE <<"<">> \o Render(Head(items)) \o Body(Tail(items))

\* The Content-Length of a file's response as stream_download reads it: none
\* (or not a number), one chunk, the most chunks.
HookTotals == {0, CHUNK_SIZE, MaxChunks * CHUNK_SIZE}

\* The callbacks stream_download makes for one file of n chunks:
\* downloaded after each chunk, the file's total.
FileCalls(key, n, tot) ==
    [k \in 1..n |-> [key |-> key, downloaded |-> k * CHUNK_SIZE, total |-> tot]]

\* The callbacks of a folder's download: the files in order, each with its
\* own Content-Length and number of chunks.
HookCalls ==
    {FileCalls(<<F_NEW, ARB>>, n1, t1) \o FileCalls(<<F_NEW, OPH>>, n2, t2) :
        n1 \in 1..MaxChunks, t1 \in HookTotals, n2 \in 0..MaxChunks, t2 \in HookTotals}

\* progress_hook's percent as the fraction <<numerator, denominator>>:
\* (total_downloaded / total_expected) * 100 if total_expected > 0 else 0
Percent(expected, downloaded_by_key) ==
    IF DictSum(expected) > 0
    THEN <<DictSum(downloaded_by_key) * 100, DictSum(expected)>>
    ELSE <<0, 1>>

\* ------------------------------- load_csv_file of the two CSV viewers
\* A file is its lines, each the characters before the line end; a line
\* splits at its commas.
RECURSIVE SplitComma(_, _)
SplitComma(line, field) ==
    IF line = <<>> THEN <<field>>
    ELSE IF Head(line) = "," THEN <<field>> \o SplitComma(Tail(line), <<>>)
    ELSE SplitComma(Tail(line), Append(field, Head(line)))

\* csv.reader's row for a line: the fields, and no field for a blank line.
CsvRow(line) == IF line = <<>> THEN <<>> ELSE SplitComma(line, <<>>)

\* list(csv.reader(handle))
CsvReader(lines) == [i \in 1..Len(lines) |-> CsvRow(lines[i])]

\* The loop over the rows with the column count never tested.
RECURSIVE ReadRowsKeepAll(_, _, _, _)
ReadRowsKeepAll(rows, headers, limit, acc) ==
    IF rows = <<>> THEN acc
    ELSE LET row == Head(rows) IN
         ReadRowsKeepAll(Tail(rows), headers, limit,
             [acc EXCEPT !.data_rows = @ + 1,
                         !.all_rows = Append(@, row),
                         !.preview_rows = IF Len(@) < limit THEN Append(@, row)
                                          ELSE @])

\* for row in reader: a row of another length than the header's is counted
\* as corrupted, any other is counted, kept and, below the limit, previewed.
RECURSIVE ReadRows(_, _, _, _)
ReadRows(rows, headers, limit, acc) ==
    IF rows = <<>> THEN acc
    ELSE LET row == Head(rows) IN
         IF Len(row) # Len(headers)
         THEN ReadRows(Tail(rows), headers, limit,
                       [acc EXCEPT !.corrupted_rows = @ + 1])
         ELSE ReadRows(Tail(rows), headers, limit,
                       [acc EXCEPT !.data_rows = @ + 1,
                                   !.all_rows = Append(@, row),
                                   !.preview_rows = IF Len(@) < limit
                                                    THEN Append(@, row) ELSE @])

\* The locals before the loop.
NoRows == [preview_rows |-> <<>>, all_rows |-> <<>>, data_rows |-> 0,
           corrupted_rows |-> 0]

\* What a call returns: ok, the message's kind, headers, preview rows, all
\* rows, and the numbers of the message.
Loaded(headers, acc) ==
    [ok |-> TRUE, msg |-> "Total", headers |-> headers,
     preview_rows |-> acc.preview_rows, all_rows |-> acc.all_rows,
     counts |-> <<acc.data_rows + acc.corrupted_rows, acc.data_rows,
                  acc.corrupted_rows>>]
NotLoaded(msg) ==
    [ok |-> FALSE, msg |-> msg, headers |-> <<>>, preview_rows |-> <<>>,
     all_rows |-> <<>>, counts |-> <<0, 0, 0>>]

\* What the file is to the call: not there; text the first encoding tried
\* decodes; text only cp1252 decodes; bytes no encoding tried decodes.
CsvFiles == {"missing", "decodes", "cp1252 only", "undecodable"}

\* ingress-analysis.py, load_csv_file: the file is read in the platform's
\* encoding; a decoding error is caught by the outer handler.
load_csv_file_ingress(file, lines, limit) ==
    IF file = "missing" THEN NotLoaded("File not found")
    ELSE IF file # "decodes" THEN NotLoaded("Failed to load")
    ELSE IF lines = <<>> THEN NotLoaded("is empty")
    ELSE LET reader == CsvReader(lines)
             headers == Head(reader)
         IN  Loaded(headers, ReadRows(Tail(reader), headers, limit, NoRows))

\* 3_mwo-analysis.py, load_csv_file: read_csv("utf-8") and, on a
\* UnicodeDecodeError, read_csv("cp1252"); no header and no row is "empty".
load_csv_file_mwo(file, lines, limit) ==
    IF file = "missing" THEN NotLoaded("File not found")
    ELSE IF file = "undecodable" THEN NotLoaded("Failed to load")
    ELSE LET reader == CsvReader(lines)
             headers == IF lines = <<>> THEN <<>> ELSE Head(reader)
             acc == IF lines = <<>> THEN NoRows
                    ELSE ReadRows(Tail(reader), headers, limit, NoRows)
         IN  IF headers = <<>> /\ acc.all_rows = <<>>
             THEN NotLoaded("is empty")
             ELSE Loaded(headers, acc)

\* preview_limit's default.
PREVIEW_LIMIT == 200

\* The preview limits of the calls.
PreviewLimits == {0, 1, PREVIEW_LIMIT}

\* The lines the files are made of: blank, one field, two fields, two
\* fields the first empty, three fields.
LinePool ==
    {<<>>, <<"a">>, <<"b">>, <<"a", ",", "b">>, <<",", "a">>,
     <<"a", ",", "b", ",", "a">>}

\* The most lines in a file.
MaxLines == 4

CsvInputs ==
    {[lines |-> l, limit |-> k] :
        l \in UNION {[1..n -> LinePool] : n \in 0..MaxLines}, k \in PreviewLimits}

\* One call, ready to be made: the application idle, the argument chosen.
FnInit ==
    /\ AppInit
    /\ MwoIdle
    /\ fs = [n \in Names |-> IF n \in Matching THEN Absent ELSE Dir(Required)]
    /\ fn_op \in {"parse", "sort", "fetch", "hook", "load_ingress", "load_mwo"}
    /\ fn_env \in IF fn_op = "fetch" THEN FetchOutcomes
                  ELSE IF fn_op \in {"load_ingress", "load_mwo"} THEN CsvFiles
                  ELSE {"body"}
    /\ fn_args \in
          IF fn_op = "parse" THEN {<<it>> : it \in ParseInputs}
          ELSE IF fn_op = "hook" THEN HookCalls
          ELSE IF fn_op \in {"load_ingress", "load_mwo"} THEN {<<c>> : c \in CsvInputs}
          ELSE IF fn_op = "fetch" /\ fn_env # "body" THEN {<<>>}
          ELSE ItemLists
    /\ fn_done = FALSE
    /\ out_parse = <<NoneDT, NoneDT>>
    /\ out_names = <<>>
    /\ out_ok = FALSE
    /\ out_msg = ""
    /\ out_percent = <<0, 1>>
    /\ out_headers = <<>>
    /\ out_preview = <<>>
    /\ out_rows = <<>>
    /\ out_counts = <<0, 0, 0>>

\* parse_folder_name(name)
CallParseFolderName ==
    /\ fn_op = "parse" /\ ~fn_done
    /\ out_parse' = parse_folder_name(Render(fn_args[1]))
    /\ fn_done' = TRUE
    /\ UNCHANGED <<appVars, mwoVars, csvOut, fn_op, fn_args, fn_env, out_names, out_ok, out_msg, out_percent>>

\* sorted(names, key=folder_sort_key)
CallSorted ==
    /\ fn_op = "sort" /\ ~fn_done
    /\ out_names' = SortedChars({Render(fn_args[i]) : i \in 1..Len(fn_args)})
    /\ fn_done' = TRUE
    /\ UNCHANGED <<appVars, mwoVars, csvOut, fn_op, fn_args, fn_env, out_parse, out_ok, out_msg, out_percent>>

\* fetch_remote_folders()
CallFetchRemoteFolders ==
    /\ fn_op = "fetch" /\ ~fn_done
    /\ LET r == fetch_remote_folders(fn_env, Body(fn_args)) IN
          /\ out_ok' = r[1]
          /\ out_names' = r[2]
          /\ out_msg' = r[3]
    /\ fn_done' = TRUE
    /\ UNCHANGED <<appVars, mwoVars, csvOut, fn_op, fn_args, fn_env, out_parse, out_percent>>

\* progress_hook(fld, filename, downloaded, total, elapsed), once for each
\* callback of the download, on the accumulators download_selected cleared.
CallProgressHook ==
    /\ fn_op = "hook" /\ ~fn_done
    /\ LET c == Head(fn_args) IN
          /\ overall_downloaded' = DictSet(overall_downloaded, c.key, c.downloaded)
          /\ overall_expected' = HookExpected(c.key, c.total)
    /\ out_percent' = Percent(overall_expected', overall_downloaded')
    /\ fn_args' = Tail(fn_args)
    /\ fn_done' = (Tail(fn_args) = <<>>)
    /\ UNCHANGED <<fs, server_length, uiVars, runVars, pc, loopVars, fileVars,
                   cancel_bytes, requests>>
    /\ UNCHANGED <<fn_op, fn_env, out_parse, out_names, out_ok, out_msg, csvOut, mwoVars>>

\* load_csv_file(filename, preview_limit) of either viewer
CallLoadCsvFile ==
    /\ fn_op \in {"load_ingress", "load_mwo"} /\ ~fn_done
    /\ LET r == IF fn_op = "load_ingress"
                THEN load_csv_file_ingress(fn_env, fn_args[1].lines, fn_args[1].limit)
                ELSE load_csv_file_mwo(fn_env, fn_args[1].lines, fn_args[1].limit)
       IN  /\ out_ok' = r.ok
           /\ out_msg' = r.msg
           /\ out_headers' = r.headers
           /\ out_preview' = r.preview_rows
           /\ out_rows' = r.all_rows
           /\ out_counts' = r.counts
    /\ fn_done' = TRUE
    /\ UNCHANGED <<appVars, mwoVars, fn_op, fn_args, fn_env, out_parse, out_names,
                   out_percent>>

FnNext ==
    \/ CallParseFolderName
    \/ CallSorted
    \/ CallFetchRemoteFolders
    \/ CallProgressHook
    \/ CallLoadCsvFile

FnSpec == FnInit /\ [][FnNext]_vars

\* ------------------------------------- the MWO viewer's saved filters
\* The APM values the loaded files hold, and the accident modes.
ApmIds == {"APM1", "APM2"}
AccidentModes == {"all", "yes", "no"}

\* The most successful loads of a session.
MaxLoads == 3

\* load_filter_state(): no file (or one that is not a dict), or what
\* save_filters wrote.
SavedStates ==
    {EmptyDict} \cup
    {[k \in {"apm", "accident"} |-> IF k = "apm" THEN S ELSE {m}] :
        S \in SUBSET ApmIds, m \in AccidentModes}

\* build_ui up to the main loop: the filter file read, nothing loaded.
MwoInit ==
    /\ AppInit
    /\ fs = [n \in Names |-> IF n \in Matching THEN Absent ELSE Dir(Required)]
    /\ FnIdle
    /\ saved_filter_state \in SavedStates
    /\ saved_filters_applied = FALSE
    /\ selected_apm_vars = EmptyDict
    /\ accident_yes_var = FALSE
    /\ accident_no_var = FALSE
    /\ accident_all_var = TRUE
    /\ current_rows = {}
    /\ loads = 0

current_accident_mode ==
    IF accident_yes_var THEN "yes" ELSE IF accident_no_var THEN "no" ELSE "all"

\* set_accident_mode(mode): the three variables.
AccidentVarsSet(mode) ==
    /\ accident_all_var' = (mode = "all")
    /\ accident_yes_var' = (mode = "yes")
    /\ accident_no_var' = (mode = "no")

\* The ids whose checkbox is set.
SelectedApm == {id \in DOMAIN selected_apm_vars : selected_apm_vars[id]}

\* refresh_apm_filter_options: one checkbox for each APM value of the rows,
\* set from the saved state while the flag is not set and the state has the
\* key, else from the previous selection (all set if that was empty).
refresh_apm_filter_options(ids, applied) ==
    LET previous_selected == SelectedApm
        use_saved == ~applied /\ "apm" \in DOMAIN saved_filter_state
    IN  [id \in ids |->
            IF use_saved THEN id \in saved_filter_state["apm"]
            ELSE id \in previous_selected \/ previous_selected = {}]

\* apply_saved_accident_filter: nothing once the flag is set, else the mode
\* the saved state names, if it names one.
apply_saved_accident_filter(applied) ==
    LET saved == IF "accident" \in DOMAIN saved_filter_state
                 THEN saved_filter_state["accident"] ELSE {}
    IN  IF applied THEN UNCHANGED <<accident_all_var, accident_yes_var, accident_no_var>>
        ELSE IF "yes" \in saved THEN AccidentVarsSet("yes")
        ELSE IF "no" \in saved THEN AccidentVarsSet("no")
        ELSE IF "all" \in saved THEN AccidentVarsSet("all")
        ELSE UNCHANGED <<accident_all_var, accident_yes_var, accident_no_var>>

\* handle_load.  A failed load clears the tables and leaves the filters.  A
\* successful one rebuilds the checkboxes and applies the saved accident
\* mode, both reading build_ui's saved_filters_applied; the assignment
\* saved_filters_applied = True that follows has no nonlocal declaration, so
\* it binds a local of handle_load and build_ui's flag stays as it was.
handle_load ==
    /\ loads < MaxLoads
    /\ \/ UNCHANGED mwoVars
       \/ \E ids \in SUBSET ApmIds :
            /\ current_rows' = ids
            /\ selected_apm_vars' = refresh_apm_filter_options(ids, saved_filters_applied)
            /\ apply_saved_accident_filter(saved_filters_applied)
            /\ loads' = loads + 1
            /\ UNCHANGED <<saved_filter_state, saved_filters_applied>>
    /\ UNCHANGED <<appVars, fnVars>>

\* The user sets or clears the checkbox of an APM.
ToggleApm ==
    /\ \E id \in DOMAIN selected_apm_vars :
          selected_apm_vars' = [selected_apm_vars EXCEPT ![id] = ~@]
    /\ UNCHANGED <<saved_filter_state, saved_filters_applied, accident_yes_var,
                   accident_no_var, accident_all_var, current_rows, loads>>
    /\ UNCHANGED <<appVars, fnVars>>

\* select_all_values(selected_apm_vars, state): "Select all", "Clear all".
select_all_values ==
    /\ \E state \in BOOLEAN :
          /\ selected_apm_vars' = [id \in DOMAIN selected_apm_vars |-> state]
          /\ selected_apm_vars' # selected_apm_vars
    /\ UNCHANGED <<saved_filter_state, saved_filters_applied, accident_yes_var,
                   accident_no_var, accident_all_var, current_rows, loads>>
    /\ UNCHANGED <<appVars, fnVars>>

\* set_accident_mode(mode), from one of the three accident checkboxes.
set_accident_mode ==
    /\ \E mode \in AccidentModes :
          /\ mode # current_accident_mode
          /\ AccidentVarsSet(mode)
    /\ UNCHANGED <<saved_filter_state, saved_filters_applied, selected_apm_vars,
                   current_rows, loads>>
    /\ UNCHANGED <<appVars, fnVars>>

\* save_filters: the selections written to the file and kept as the saved
\* state; the flag set.
save_filters ==
    /\ saved_filter_state' =
          [k \in {"apm", "accident"} |->
              IF k = "apm" THEN SelectedApm ELSE {current_accident_mode}]
    /\ saved_filters_applied' = TRUE
    /\ UNCHANGED <<selected_apm_vars, accident_yes_var, accident_no_var,
                   accident_all_var, current_rows, loads>>
    /\ UNCHANGED <<appVars, fnVars>>

\* reset_filters: every checkbox set, the mode "all", the file removed, the
\* saved state emptied; the flag set.
reset_filters ==
    /\ selected_apm_vars' = [id \in DOMAIN selected_apm_vars |-> TRUE]
    /\ AccidentVarsSet("all")
    /\ saved_filter_state' = EmptyDict
    /\ saved_filters_applied' = TRUE
    /\ UNCHANGED <<current_rows, loads>>
    /\ UNCHANGED <<appVars, fnVars>>

MwoNext ==
    \/ handle_load
    \/ ToggleApm
    \/ select_all_values
    \/ set_accident_mode
    \/ save_filters
    \/ reset_filters

MwoSpec == MwoInit /\ [][MwoNext]_vars

\* ------------------------------------------------------------- claims
\* The worker is inside run_download's loop.
InRun == pc \in {"loop", "df_enter", "sd_open", "sd_read", "sd_write", "sd_ret", "post"}

\* stream_download has just returned to download_folder.
SdReturned == pc = "sd_ret"

\* download_folder has just returned to run_download.
DfReturned == pc = "post"

HasAll(files) == Required \subseteq files

\* C1: every matching directory of the logs root is in exactly one of the two
\* sets of local_folder_status: in complete iff it holds every required
\* file, in partial iff it lacks one; nothing else is in either set, and the
\* sets kept from the last refresh are disjoint.
C1_LocalStatusPartition ==
    LET complete == LocalComplete(fs)
        partial == LocalPartial(fs)
    IN  /\ complete \cap partial = {}
        /\ \A n \in Names :
             IF fs[n].kind = "dir" /\ n \in Matching
             THEN /\ n \in complete <=> HasAll(fs[n].files)
                  /\ n \in partial <=> ~HasAll(fs[n].files)
             ELSE n \notin complete \cup partial
        /\ local_names \cap partial_names = {}

\* A folder holding arbitrator.csv and the .part file of op_hour.csv, which
\* is being downloaded, listed partial and not complete by a refresh that
\* scanned it in that state.
C1_Witness ==
    /\ is_downloading /\ pc = "sd_write" /\ Folder = F_NEW
    /\ fs[F_NEW] = Dir({ARB, PartOf(OPH)})
    /\ F_NEW \in LocalPartial(fs) /\ F_NEW \notin LocalComplete(fs)
    /\ F_NEW \in partial_names /\ F_NEW \notin local_names

\* C2: when download_folder created the destination directory and a file's
\* download failed, the directory is gone when download_folder returns, and
\* the result is the failure with the message of the failed download.
C2_CreatedDirRemoved ==
    (DfReturned /\ ~df_result[1] /\ fs_before[Folder].kind = "absent") =>
        /\ fs[Folder] = Absent
        /\ df_result[2] \in {NetErr, SaveErr, Cancelled}
        /\ failures # <<>>
        /\ failures[Len(failures)] = <<Folder, df_result[2]>>

\* The second file failed after the first was downloaded into a directory
\* the call created; the directory is gone.
C2_Witness ==
    /\ DfReturned /\ ~df_result[1]
    /\ file_idx = 2
    /\ fs_before[Folder].kind = "absent"
    /\ fs[Folder] = Absent

\* C3 as stated: once the flag became true during a stream_download (and no
\* network or IO error ended the call), the call returns Cancelled and leaves
\* neither dest_path nor the .part file.
C3_AsStated ==
    (SdReturned /\ sd_before.cancel = "during"
                /\ sd_result[2] \notin {NetErr, SaveErr}) =>
        /\ sd_result = <<FALSE, Cancelled>>
        /\ Filename \notin fs[Folder].files
        /\ PartOf(Filename) \notin fs[Folder].files

\* C3 amended: the flag is read only at the check before a chunk is written.
\* With the flag set no chunk goes on to be written; and a call that returns
\* Cancelled has the flag set, leaves no .part file and leaves dest_path as
\* it was when the call began.
C3_CancelledLeavesNoPart ==
    /\ [](SdReturned /\ sd_result[2] = Cancelled =>
            /\ ~sd_result[1]
            /\ cancel_requested
            /\ PartOf(Filename) \notin fs[Folder].files
            /\ (Filename \in fs[Folder].files) <=> sd_before.dest)
    /\ [][(pc = "sd_read" /\ cancel_requested) => pc' # "sd_write"]_vars

\* Cancelled after the first chunk of a file whose older copy was on disk:
\* the copy is still there, the .part file is not.
C3_Witness ==
    /\ SdReturned /\ sd_result = <<FALSE, Cancelled>>
    /\ chunks # <<>>
    /\ sd_before.dest /\ sd_before.cancel = "during"
    /\ Filename \in fs[Folder].files
    /\ PartOf(Filename) \notin fs[Folder].files

\* The sum of the first i chunk sizes.
RECURSIVE PrefixSum(_, _)
PrefixSum(s, i) == IF i = 0 THEN 0 ELSE PrefixSum(s, i - 1) + s[i]

\* C4: a successful stream_download made one progress call per chunk
\* written, each with the bytes written up to then; the values increase
\* strictly, the last is the returned count, and no .part file is left.
C4_ProgressPerChunk ==
    (SdReturned /\ sd_result[1]) =>
        /\ Len(calls) = Len(chunks)
        /\ \A i \in 1..Len(calls) : calls[i] = PrefixSum(chunks, i)
        /\ \A i \in 1..(Len(calls) - 1) : calls[i] < calls[i + 1]
        /\ downloaded = PrefixSum(chunks, Len(chunks))
        /\ calls # <<>> => calls[Len(calls)] = downloaded
        /\ PartOf(Filename) \notin fs[Folder].files
        /\ Filename \in fs[Folder].files

\* A successful download of a body delivered in two chunks.
C4_Witness ==
    /\ SdReturned /\ sd_result[1]
    /\ Len(chunks) = 2
    /\ calls = <<CHUNK_SIZE, 2 * CHUNK_SIZE>>

\* C5: when download_folder returns a failure (a cancellation included),
\* every other entry of the logs root is as it was when the call began; a
\* destination directory that existed then still exists with every file it
\* held; and every folder downloaded earlier in the run stays complete.
C5_FailureTouchesOnlyItsFolder ==
    /\ (DfReturned /\ ~df_result[1]) =>
          /\ \A n \in Names \ {Folder} : fs[n] = fs_before[n]
          /\ fs_before[Folder].kind = "dir" =>
                /\ fs[Folder].kind = "dir"
                /\ fs_before[Folder].files \subseteq fs[Folder].files
    /\ \A i \in 1..Len(succeeded) :
          /\ fs[succeeded[i]].kind = "dir"
          /\ HasAll(fs[succeeded[i]].files)

\* The second folder of a run, which existed holding arbitrator.csv, fails
\* after the first folder was downloaded.
C5_Witness ==
    /\ DfReturned /\ ~df_result[1]
    /\ Len(succeeded) = 1
    /\ fs_before[Folder] = Dir({ARB})
    /\ ARB \in fs[Folder].files

\* C6: no exception escapes download_folder or stream_download: the worker
\* thread is never ended by one.
C6_NoUnhandledException == pc # "crashed"

\* C7: a run leaves Idle only by download_selected starting a worker, and
\* every run that entered Running is finalized: is_downloading is cleared
\* and the cancel button disabled.
C7_RunsAreFinalized ==
    /\ [][(~is_downloading /\ is_downloading') => DownloadSelectedStart]_vars
    /\ [](is_downloading => <>(~is_downloading /\ cancel_btn = "disabled"))

\* C8: at most one run_download thread exists, and only while is_downloading
\* is set; while it is set no step starts a thread, clears the cancel flag or
\* drops an entry of the progress accumulators, and a download_selected
\* changes nothing at all.
C8_OneRunAtATime ==
    /\ [](active_threads <= 1 /\ (active_threads = 1 => is_downloading))
    /\ [][is_downloading =>
            /\ active_threads' <= active_threads
            /\ cancel_requested => cancel_requested'
            /\ DOMAIN overall_expected \subseteq DOMAIN overall_expected'
            /\ DOMAIN overall_downloaded \subseteq DOMAIN overall_downloaded'
            /\ download_selected => UNCHANGED vars]_vars

\* A run in progress with rows selected, the cancel flag set and progress
\* recorded: what a download_selected pressed now must leave alone.
C8_Witness ==
    /\ is_downloading /\ active_threads = 1
    /\ selection # {}
    /\ cancel_requested
    /\ DOMAIN overall_downloaded # {}
    /\ ENABLED DownloadSelectedRefused

\* C9: from a cancellation request on, the download loop writes at most one
\* more chunk, at most 8192 bytes: with the flag set no chunk read goes on
\* to be written.
C9_OneChunkAfterCancel ==
    /\ [](cancel_bytes <= CHUNK_SIZE)
    /\ [][(pc = "sd_read" /\ cancel_requested) => pc' # "sd_write"]_vars

\* A request that arrived between the check and the write: the chunk was
\* written, the next check ended the download.
C9_Witness ==
    /\ cancel_bytes = CHUNK_SIZE
    /\ SdReturned /\ sd_result = <<FALSE, Cancelled>>

\* The folders with an outcome, in the order they got it.
OutcomeFolders ==
    {succeeded[i] : i \in 1..Len(succeeded)} \cup {failures[i][1] : i \in 1..Len(failures)}

\* C10 as stated: when the run finishes, successes plus failure entries
\* equal the folders handed to the worker.
C10_AsStated ==
    pc = "exited" => successes + Len(failures) = Len(selected_folders)

\* C10 amended: no folder has more than one outcome, the folders with an
\* outcome are those the loop reached, and a run that finishes without a
\* cancellation request has an outcome for every folder.
C10_OneOutcomePerReachedFolder ==
    /\ successes = Len(succeeded)
    /\ Cardinality(OutcomeFolders) = successes + Len(failures)
    /\ InRun => OutcomeFolders \subseteq
                    {selected_folders[i] : i \in (1..idx) \cap DOMAIN selected_folders}
    /\ pc = "exited" =>
          /\ successes + Len(failures) <= Len(selected_folders)
          /\ ~cancel_requested => successes + Len(failures) = Len(selected_folders)

\* A run of two folders finished without cancellation, one downloaded and
\* one failed.
C10_Witness ==
    /\ pc = "exited" /\ ~cancel_requested
    /\ Len(selected_folders) = 2
    /\ successes = 1 /\ Len(failures) = 1

\* C11: the folders are taken in the order of the list, one at a time (the
\* loop index stays or moves to the next folder), each result is recorded (a
\* success counted, a failure appended as <<folder, message>>), and the
\* worker ends only after the last folder or after a cancellation request:
\* no other failure of a folder stops the run.
C11_FailureDoesNotStopRun ==
    [][InRun =>
         /\ InRun' => idx' \in {idx, idx + 1}
         /\ (pc = "sd_ret" /\ pc' = "post") =>
               IF sd_result[1]
               THEN successes' = successes + 1 /\ failures' = failures
               ELSE /\ failures' = Append(failures, <<Folder, sd_result[2]>>)
                    /\ successes' = successes
         /\ active_threads' < active_threads =>
               cancel_requested \/ idx > Len(selected_folders)]_vars

\* C12: within one run no <<folder, filename>> is requested from the server
\* more than once.
C12_NoRetry ==
    \A i, j \in 1..Len(requests) : i # j => requests[i] # requests[j]

\* A run of two folders that ended with the first folder's first file
\* failed and both files of the second requested: three requests.
C12_Witness ==
    /\ pc = "exited" /\ ~cancel_requested
    /\ Len(selected_folders) = 2
    /\ failures # <<>> /\ failures[1][1] = selected_folders[1]
    /\ requests = <<<<selected_folders[1], ARB>>, <<selected_folders[2], ARB>>,
                    <<selected_folders[2], OPH>>>>

\* C13: with the cancel flag set, the worker begins no further folder: the
\* check at the top of the loop lets no folder through, the loop index does
\* not advance, no directory other than the one of the folder in progress
\* changes, a file is requested only for that folder, and the check after
\* the folder ends the run.
C13_CancelBetweenFolders ==
    [][(cancel_requested /\ InRun) =>
         /\ idx' = idx \/ ~InRun'
         /\ pc = "loop" => pc' # "df_enter" /\ fs' = fs /\ requests' = requests
         /\ pc # "loop" =>
               /\ \A n \in Names \ {Folder} : fs'[n] = fs[n]
               /\ Len(requests') > Len(requests) =>
                     requests'[Len(requests')][1] = Folder
         /\ pc = "post" => pc' \in {"post", "exited"}]_vars

\* Two folders handed over, the cancellation requested during the first:
\* the run has ended with the second folder never requested and its
\* directory never created.
C13_Witness ==
    /\ pc = "exited" /\ cancel_requested
    /\ Len(selected_folders) = 2 /\ idx = 1
    /\ requests # <<>>
    /\ \A i \in 1..Len(requests) : requests[i][1] = selected_folders[1]
    /\ fs[selected_folders[2]] = Absent

\* C19 as stated: the value passed to the callback grows from the first
\* callback of a folder to the last, across its files: within a file, and
\* from the last callback of an earlier file to the first of the next.
C19_AsStated ==
    /\ \A i \in 1..Len(calls) - 1 : calls[i] < calls[i + 1]
    /\ (pc \in {"sd_read", "sd_write", "sd_ret"} /\ calls # <<>>) =>
          \A j \in 1..file_idx - 1 :
              <<Folder, FILES_TO_FETCH[j]>> \in DOMAIN overall_downloaded =>
                  overall_downloaded[<<Folder, FILES_TO_FETCH[j]>>] < calls[1]

\* C19 amended: the value passed to the callback is the byte count of the
\* file being downloaded: it grows strictly within each file and starts
\* again with the next file; what grows through the folder (and the run) is
\* the sum over overall_downloaded, which no step of a run lowers and every
\* callback raises.
C19_MonotoneWithinFile ==
    /\ [](\A i \in 1..Len(calls) - 1 : calls[i] < calls[i + 1])
    /\ [][is_downloading =>
            /\ overall_downloaded' # overall_downloaded =>
                  DictSum(overall_downloaded') > DictSum(overall_downloaded)
            /\ Len(calls') = Len(calls) + 1 =>
                  /\ overall_downloaded' # overall_downloaded
                  /\ overall_downloaded'[<<Folder, Filename>>] =
                        calls'[Len(calls')]]_vars

\* The first callback of a folder's second file, after two callbacks of its
\* first: the values were 8192, 16384 and now 8192; the sum is 24576.
C19_Witness ==
    /\ pc = "sd_read" /\ file_idx = 2
    /\ calls = <<CHUNK_SIZE>>
    /\ <<Folder, ARB>> \in DOMAIN overall_downloaded
    /\ overall_downloaded[<<Folder, ARB>>] = 2 * CHUNK_SIZE
    /\ DictSum(overall_downloaded) = 3 * CHUNK_SIZE

\* C20: a stream_download that returns a network or IO failure returns
\* (False, message), leaves no .part file and leaves dest_path as it was
\* when the call began.
C20_FailureCleansPart ==
    (SdReturned /\ sd_result[2] \in {NetErr, SaveErr}) =>
        /\ ~sd_result[1]
        /\ PartOf(Filename) \notin fs[Folder].files
        /\ (Filename \in fs[Folder].files) <=> sd_before.dest

\* A failure after a chunk was written (a later read, write, callback or the
\* rename) of a file whose older copy was on disk.
C20_Witness ==
    /\ SdReturned /\ sd_result = <<FALSE, SaveErr>>
    /\ chunks # <<>>
    /\ sd_before.dest
    /\ Filename \in fs[Folder].files
    /\ PartOf(Filename) \notin fs[Folder].files

\* -------------------------------------- claims about the functions alone
\* The fields written into a half name a real date and time.
ValidFields(dt) ==
    /\ dt[1] >= 1 /\ dt[2] \in 1..12
    /\ dt[3] >= 1 /\ dt[3] <= DaysIn(dt[1], dt[2])
    /\ dt[4] \in 0..23 /\ dt[5] \in 0..59

\* Earlier than, for <<year, month, day, hour, minute>>.
DtLess(a, b) ==
    \E i \in 1..5 : a[i] < b[i] /\ \A j \in 1..i - 1 : a[j] = b[j]

\* The string begins with the 27 characters of the pattern (re.match).
MatchesPattern(it) == it.shape \in {"ok", "slash", "suffix"}

\* The string is a name parse_folder_name is to give two timestamps for.
Parseable(it) ==
    MatchesPattern(it) /\ ValidFields(it.st) /\ ValidFields(it.en)

\* A listing's string holds the 27 characters of a folder name.
HoldsName(it) == it.shape \in {"ok", "slash", "suffix", "lead"}

\* The folder names a listing made of the items holds.
ExpectedNames(items) ==
    {WellFormed(items[i]) : i \in {k \in 1..Len(items) : HoldsName(items[k])}}

\* The place of a string in the sorted list.
Pos(name) == CHOOSE i \in 1..Len(out_names) : out_names[i] = name

Epoch == <<1970, 1, 1, 0, 0>>

\* C14: from a listing holding folder names and malformed strings,
\* fetch_remote_folders returns the folder names the listing holds, each
\* once and without a slash, in the order of folder_sort_key, the later
\* start first.
C14_ListingNames ==
    (fn_op = "fetch" /\ fn_done /\ fn_env = "body"
        /\ ExpectedNames(fn_args) # {}) =>
        /\ out_ok
        /\ {out_names[i] : i \in 1..Len(out_names)} = ExpectedNames(fn_args)
        /\ Len(out_names) = Cardinality(ExpectedNames(fn_args))
        /\ \A i \in 1..Len(out_names) : Len(out_names[i]) = 27
        /\ \A i, j \in 1..Len(out_names) :
              i < j => TupleLess(folder_sort_key(out_names[i]),
                                 folder_sort_key(out_names[j]))
        /\ \A a, b \in 1..Len(fn_args) :
              (/\ HoldsName(fn_args[a]) /\ HoldsName(fn_args[b])
               /\ ValidFields(fn_args[a].st) /\ ValidFields(fn_args[a].en)
               /\ ValidFields(fn_args[b].st) /\ ValidFields(fn_args[b].en)
               /\ DtLess(fn_args[b].st, fn_args[a].st)) =>
                  Pos(WellFormed(fn_args[a])) < Pos(WellFormed(fn_args[b]))

\* A listing of the 2023 folder inside other text, a truncated name and the
\* 2024 folder with its slash: the two names, 2024 first.
C14_Witness ==
    /\ fn_op = "fetch" /\ fn_done /\ fn_env = "body"
    /\ Len(fn_args) = 3
    /\ fn_args[1].shape = "lead" /\ fn_args[2].shape = "trunc"
    /\ fn_args[3].shape = "slash"
    /\ out_ok
    /\ out_names = <<Chars(F_NEW), Chars(F_OLD)>>

\* C15: fetch_remote_folders returns a failure with the network-error
\* message for a connection or timeout error, a failure with the
\* empty-listing message when the listing holds no folder name, and the
\* empty list with every failure.
C15_FetchFailures ==
    (fn_op = "fetch" /\ fn_done) =>
        /\ fn_env \in {"URLError", "Timeout"} =>
              ~out_ok /\ out_msg = NetworkErrorMsg
        /\ (fn_env = "body" /\ ExpectedNames(fn_args) = {}) =>
              ~out_ok /\ out_msg = EmptyListingMsg
        /\ ~out_ok => out_names = <<>>

\* C16 as stated: for a well-formed name of real dates and times the two
\* results carry the fields the name was written from, and start <= end.
C16_AsStated ==
    (fn_op = "parse" /\ fn_done /\ fn_args[1].shape = "ok"
        /\ ValidFields(fn_args[1].st) /\ ValidFields(fn_args[1].en)) =>
        /\ out_parse = <<fn_args[1].st, fn_args[1].en>>
        /\ ~DtLess(out_parse[2], out_parse[1])

\* C16 amended: the two results carry the fields the name was written from;
\* start <= end exactly when the first half is not the later one.
C16_ParsesLiteralDigits ==
    (fn_op = "parse" /\ fn_done /\ fn_args[1].shape = "ok"
        /\ ValidFields(fn_args[1].st) /\ ValidFields(fn_args[1].en)) =>
        /\ out_parse = <<fn_args[1].st, fn_args[1].en>>
        /\ DtLess(out_parse[2], out_parse[1]) <=>
              DtLess(fn_args[1].en, fn_args[1].st)

\* 20240229-2359_20240229-2359 parsed: 29 February of a leap year, the two
\* halves equal.
C16_Witness ==
    /\ fn_op = "parse" /\ fn_done /\ fn_args[1].shape = "ok"
    /\ fn_args[1].st = <<2024, 2, 29, 23, 59>>
    /\ out_parse = <<<<2024, 2, 29, 23, 59>>, <<2024, 2, 29, 23, 59>>>>

\* C17: a string that does not begin with the pattern, or whose digits are
\* not a real date and time, gives (None, None); no result pairs None with
\* a timestamp.
C17_NullsTogether ==
    (fn_op = "parse" /\ fn_done) =>
        /\ ~Parseable(fn_args[1]) => out_parse = <<NoneDT, NoneDT>>
        /\ (out_parse[1] = NoneDT) <=> (out_parse[2] = NoneDT)

\* A well-formed name with a real first half and month 13 in the second:
\* (None, None).
C17_Witness ==
    /\ fn_op = "parse" /\ fn_done /\ fn_args[1].shape = "ok"
    /\ ValidFields(fn_args[1].st) /\ fn_args[1].en = <<2024, 13, 1, 0, 0>>
    /\ out_parse = <<NoneDT, NoneDT>>

\* C18 as stated: in the sorted list a parseable name with a later start
\* comes before one with an earlier start, parseable names of equal start
\* are in lexicographic order, and every unparseable name comes after
\* every parseable one.
C18_AsStated ==
    (fn_op = "sort" /\ fn_done) =>
        \A i, j \in 1..Len(fn_args) :
            LET a == fn_args[i]
                b == fn_args[j]
            IN  /\ (Parseable(a) /\ Parseable(b) /\ DtLess(b.st, a.st)) =>
                      Pos(Render(a)) < Pos(Render(b))
                /\ (Parseable(a) /\ Parseable(b) /\ a.st = b.st
                        /\ StrLess(Render(a), Render(b))) =>
                      Pos(Render(a)) < Pos(Render(b))
                /\ (Parseable(a) /\ ~Parseable(b)) =>
                      Pos(Render(a)) < Pos(Render(b))

\* C18 amended: as stated, but an unparseable name comes after the
\* parseable names that start after 1970-01-01 00:00 and before those that
\* start before it (its key is that of the epoch).
C18_DescendingByStart ==
    (fn_op = "sort" /\ fn_done) =>
        \A i, j \in 1..Len(fn_args) :
            LET a == fn_args[i]
                b == fn_args[j]
            IN  /\ (Parseable(a) /\ Parseable(b) /\ DtLess(b.st, a.st)) =>
                      Pos(Render(a)) < Pos(Render(b))
                /\ (Parseable(a) /\ Parseable(b) /\ a.st = b.st
                        /\ StrLess(Render(a), Render(b))) =>
                      Pos(Render(a)) < Pos(Render(b))
                /\ (Parseable(a) /\ ~Parseable(b) /\ DtLess(Epoch, a.st)) =>
                      Pos(Render(a)) < Pos(Render(b))
                /\ (Parseable(a) /\ ~Parseable(b) /\ DtLess(a.st, Epoch)) =>
                      Pos(Render(b)) < Pos(Render(a))

\* The 2023 folder, the 2024 folder and the month-13 name sorted: 2024,
\* 2023, then the unparseable name.
C18_Witness ==
    /\ fn_op = "sort" /\ fn_done
    /\ Len(out_names) = 3
    /\ out_names[1] = Chars(F_NEW)
    /\ out_names[2] = Chars(F_OLD)
    /\ out_names[3] = WellFormed(Item(<<2024, 13, 1, 0, 0>>, <<2024, 13, 1, 1, 0>>, "ok"))

\* ------------------------------------------- claims about the files on disk
\* The required files a directory holds under their final names.
DestFiles(f, n) == f[n].files \cap Required

EarlierOfFolder(i) == {j \in 1..(i - 1) : requests[j][1] = requests[i][1]}

\* C22: the requests a run makes for one folder are FILES_TO_FETCH in its
\* order, arbitrator.csv first; a file is requested only when download_folder
\* begins (the first) or when the file before it was downloaded with success;
\* and a stream_download that failed or was cancelled makes download_folder
\* return a failure with no further request.
C22_FixedOrderAbortOnFailure ==
    /\ [](\A i \in 1..Len(requests) :
            /\ Cardinality(EarlierOfFolder(i)) < Len(FILES_TO_FETCH)
            /\ requests[i][2] = FILES_TO_FETCH[Cardinality(EarlierOfFolder(i)) + 1])
    /\ [][/\ Len(requests') > Len(requests) => pc = "sd_open"
          /\ (pc' = "sd_open" /\ pc # "sd_open") =>
                \/ pc = "df_enter" /\ file_idx' = 1
                \/ pc = "sd_ret" /\ sd_result[1] /\ file_idx' = file_idx + 1
          /\ (pc = "sd_ret" /\ ~sd_result[1] /\ pc' # pc) =>
                /\ pc' = "post"
                /\ ~df_result'[1]
                /\ requests' = requests]_vars

\* C22 witness: arbitrator.csv failed and download_folder returned with
\* op_hour.csv never requested.
C22_Witness ==
    /\ DfReturned
    /\ ~df_result[1]
    /\ requests # <<>>
    /\ requests[Len(requests)] = <<Folder, FILES_TO_FETCH[1]>>

\* C23: a folder that holds every required file is modified by no step; the
\* folders a starting run is given are none of them complete on disk; and
\* while no download is in progress and nothing but complete folders is
\* selected, no step (a press of download_selected among them) starts a
\* run: no thread, is_downloading, the cancel flag, the two accumulators,
\* the worker and the disk all stay as they were.
C23_CompleteFoldersLeftAlone ==
    [][/\ fs' # fs =>
              \A n \in Names : fs'[n] # fs[n] => n \notin LocalComplete(fs)
       /\ active_threads' > active_threads =>
              \A i \in 1..Len(selected_folders') :
                  selected_folders'[i] \notin LocalComplete(fs)
       /\ (/\ ~is_downloading
           /\ selection # {}
           /\ selection \subseteq LocalComplete(fs)) =>
              UNCHANGED <<fs, is_downloading, cancel_requested, active_threads,
                          accVars, pc, loopVars, fileVars, requests>>]_vars

\* C23 witness: download_selected found nothing to do for a complete folder,
\* and a later run left that folder out while it downloads another.
C23_Witness ==
    /\ InRun
    /\ pc = "sd_read"
    /\ skipped > 0
    /\ status_var = AllDoneMsg
    /\ \E n \in LocalComplete(fs) : n \in selection /\ n \notin SeqToSet(selected_folders)

\* C24: a stream_download that returns success for a response with a
\* Content-Length above zero has written exactly that many bytes to the file
\* it renamed into place.
C24_SuccessMeansAnnouncedLength ==
    (SdReturned /\ sd_result[1] /\ total # 0) => downloaded = total

\* C26: a worker thread is started with the cancel flag clear, and while no
\* download is in progress the flag changes in no step but that start, so a
\* cancel click made then sets nothing and a click of an earlier run never
\* reaches a later one.
C26_RunsStartUncancelled ==
    [][/\ active_threads' > active_threads =>
              /\ ~cancel_requested'
              /\ is_downloading'
              /\ pc' = "loop"
       /\ (~is_downloading /\ cancel_requested' # cancel_requested) =>
              /\ active_threads' > active_threads
              /\ ~cancel_requested']_vars

\* C26 witness: a cancelled run has been finalized, its flag is still set,
\* and folders are selected that download_selected will start a run for.
C26_Witness ==
    /\ ~is_downloading
    /\ cancel_requested
    /\ pc = "none"
    /\ selection # {}
    /\ SelectSeq(SelectedItems, LAMBDA n : ~IsSkipped(n)) # <<>>

\* C27: when download_folder has returned success, the folder's directory
\* holds every required file and no .part file, and local_folder_status
\* read then has the folder among the complete ones, not the partial ones.
C27_SuccessMeansComplete ==
    (DfReturned /\ df_result[1]) =>
        /\ fs[Folder].kind = "dir"
        /\ \A name \in Required :
              name \in fs[Folder].files /\ PartOf(name) \notin fs[Folder].files
        /\ Folder \in LocalComplete(fs)
        /\ Folder \notin LocalPartial(fs)

\* C27 witness: download_folder returned success for a folder that was
\* missing or partial when it was called.
C27_Witness ==
    /\ DfReturned
    /\ df_result[1]
    /\ ~HasAll(fs_before[Folder].files)
    /\ Len(requests) >= Len(FILES_TO_FETCH)

\* C28: when finalize has run for a run with a folder downloaded, the status
\* line reads "Downloaded N folder(s)", N the run's successes, followed by
\* "; skipped K already complete" when K of the selected folders were left out.
C28_SummaryShownAfterRun ==
    [][(finalize_pending /\ ~finalize_pending' /\ successes > 0) =>
          status_var' = DownloadedMsg(successes, skipped)]_vars

\* ---------------------------------------------- claims, the functions alone
\* C25: after every progress callback the percentage progress_hook computes
\* lies between 0 and 100.
C25_PercentWithinBounds ==
    fn_op = "hook" =>
        /\ out_percent[1] >= 0
        /\ out_percent[1] <= 100 * out_percent[2]

\* The call is one of load_csv_file and has returned.
LoadDone == fn_op \in {"load_ingress", "load_mwo"} /\ fn_done

\* The file is there and its first line is a header: it has a field.
HasHeaderRow ==
    /\ fn_env # "missing"
    /\ fn_args[1].lines # <<>>
    /\ fn_args[1].lines[1] # <<>>

\* The call can decode the file: in the one encoding ingress-analysis.py
\* reads with, in UTF-8 or else cp1252 for 3_mwo-analysis.py.
Decodes ==
    \/ fn_env = "decodes"
    \/ fn_env = "cp1252 only" /\ fn_op = "load_mwo"

\* The number of commas of a line, and its number of fields.
CommaCount(line) == Cardinality({i \in 1..Len(line) : line[i] = ","})
FieldCount(line) == IF line = <<>> THEN 0 ELSE CommaCount(line) + 1

\* The lines after the header with as many fields as the header, in file
\* order, and the number of the others.
DataLines == Tail(fn_args[1].lines)
GoodLines ==
    SelectSeq(DataLines, LAMBDA l : FieldCount(l) = FieldCount(fn_args[1].lines[1]))
BadLineCount == Len(DataLines) - Len(GoodLines)
MinOf(a, b) == IF a < b THEN a ELSE b

\* What the claim says of the result of a call.
RowsAsClaimed ==
    /\ out_ok
    /\ out_rows = [i \in 1..Len(GoodLines) |-> CsvRow(GoodLines[i])]
    /\ out_counts = <<Len(out_rows) + BadLineCount, Len(out_rows), BadLineCount>>
    /\ out_counts[1] = out_counts[2] + out_counts[3]
    /\ out_preview = SubSeq(out_rows, 1, MinOf(fn_args[1].limit, Len(out_rows)))

\* C30 as stated: for every file with a header row, all_rows is the rows of
\* the header's field count in file order, the counts are Total = Success +
\* Fail with Success = len(all_rows) and Fail the rows of another field
\* count, and the preview is the first min(preview_limit, Success) rows.
C30_AsStated == (LoadDone /\ HasHeaderRow) => RowsAsClaimed

\* C30: the same for every file with a header row that the call can decode;
\* for one it cannot, the call returns failure with no rows.
C30_RowsOfHeaderWidth ==
    (LoadDone /\ HasHeaderRow) =>
        IF Decodes THEN RowsAsClaimed
        ELSE ~out_ok /\ out_rows = <<>> /\ out_preview = <<>> /\ out_headers = <<>>

\* C30 witness: a file was loaded with rows kept, rows of another field
\* count left out, and more rows kept than the preview holds.
C30_Witness ==
    /\ LoadDone
    /\ out_ok
    /\ out_counts[3] > 0
    /\ Len(out_rows) > Len(out_preview)
    /\ Len(out_preview) > 0

\* ------------------------------------------------ claims, the MWO viewer
\* C29: a successful load that follows another of the session leaves the
\* checkbox of every APM of both files as the user had it (some checkbox
\* being set) and the accident mode as it was, whether or not save or reset
\* was pressed in between.
C29_SavedFiltersOnlyOnFirstLoad ==
    [][(loads >= 1 /\ loads' = loads + 1) =>
          /\ SelectedApm # {} =>
                \A id \in DOMAIN selected_apm_vars \cap DOMAIN selected_apm_vars' :
                    selected_apm_vars'[id] = selected_apm_vars[id]
          /\ UNCHANGED <<accident_all_var, accident_yes_var, accident_no_var>>]_vars

====
